---- MODULE Spec2Model ----
(***************************************************************************)
(* A model of matrix_client/client.py: the MatrixClient room registry,     *)
(* the initial sync (_sync), the event-stream poll (listen_for_events)     *)
(* with its listener fan-out, and the Room operations that talk to the     *)
(* transport (MatrixHttpApi, an external collaborator whose answers are    *)
(* inputs of the actions).                                                 *)
(*                                                                         *)
(* Python dicts are functions; a key that may be missing is a field that   *)
(* may be absent from the record (tested with "k" \in DOMAIN d).  The      *)
(* empty dict is the empty function <<>>.                                  *)
(***************************************************************************)
EXTENDS Integers, Sequences, FiniteSets, TLC

\* ------------------------------------------------------------------ bounds
\* chunks in one event_stream response
MaxChunks == 2

\* ------------------------------------------------------------ value domains
None == "<None>"
\* self.end before the first _sync: the attribute does not exist yet
Unset == "<unset>"
NoCb == "<no callback>"
NoRoom == "<no room>"
NoResp == <<>>

RoomIds == {"!a:x", "!b:x"}
Tokens == {"tok1", "tok2"}
Callbacks == {"f", "g"}

SeqUpTo(S, n) == UNION {[1..k -> S] : k \in 0..n}

Range(s) == {s[i] : i \in DOMAIN s}

\* The sequences of at most n elements of S, none twice.
DistinctSeqs(S, n) ==
    {s \in SeqUpTo(S, n) : \A i, j \in DOMAIN s : s[i] = s[j] => i = j}

\* The events the homeserver has for this account: with and without a
\* room_id.  The event stream delivers each of them once.
Chunks == {[type |-> "m.room.message", room_id |-> "!a:x"],
           [type |-> "m.room.name", room_id |-> "!a:x",
            content |-> [name |-> "Lobby"]],
           [type |-> "m.presence"]}

\* ----------------------------------------------------------------- state
VARIABLES rooms,      \* MatrixClient.rooms: room_id -> Room
          listeners,  \* MatrixClient.listeners, in registration order
          end,        \* MatrixClient.end, the event-stream cursor
          stream,     \* homeserver: the events not yet put on the stream
          issued,     \* homeserver: the latest "end" token it has answered
                      \* with, and the request that got it
          calls,      \* what the running call did, in order: listener
                      \* invocations and event-log appends
          last,       \* the call that has just returned or raised: its
                      \* operation, argument, transport answer and result
          thread      \* the thread of start_listener_thread: where it is
                      \* in listen_forever / listen_for_events

vars == <<rooms, listeners, end, stream, issued, calls, last, thread>>

\* The client's fields, as a call finds them.
Snapshot == [rooms |-> rooms, listeners |-> listeners, end |-> end,
             issued |-> issued]

\* start_listener_thread has not been called.
NoThread == [pc |-> "off", resp |-> NoResp, k |-> 0, calls |-> <<>>,
             stop |-> FALSE, exc |-> None]

\* No call has returned since the caller took the last result.
Idle == [op |-> "idle", arg |-> NoRoom, ok |-> FALSE, ret |-> None,
         resp |-> NoResp, boom |-> NoCb, sent |-> None, pre |-> None]

\* What the caller and the transport saw of a call: the operation, its
\* argument, whether the transport answered (ok) or raised
\* MatrixRequestError, its answer, the cursor handed to it (event_stream
\* only), the callback that raised, what the call returned or raised, and
\* the client's fields as the call found them.
Result(op, arg, ok, ret, resp, boom) ==
    [op |-> op, arg |-> arg, ok |-> ok, ret |-> ret, resp |-> resp,
     boom |-> boom,
     sent |-> IF op = "listen_for_events" /\ ret # "AttributeError"
              THEN end ELSE None,
     pre |-> Snapshot]

Issue(by, resp) ==
    IF "end" \in DOMAIN resp THEN [by |-> by, end |-> resp.end] ELSE issued

\* Room.__init__
Room(room_id) == [room_id |-> room_id, listeners |-> <<>>, events |-> <<>>,
                  name |-> None, aliases |-> <<>>, topic |-> None]

\* MatrixClient._mkroom: self.rooms[room_id] = Room(self, room_id)
Mkroom(rs, room_id) ==
    [r \in DOMAIN rs \cup {room_id} |->
        IF r = room_id THEN Room(room_id) ELSE rs[r]]

\* The callbacks registered with the client or with a room of the registry.
\* A callback is registered in one place at a time.
Registered(rs, ls) ==
    Range(ls) \cup UNION {Range(rs[r].listeners) : r \in DOMAIN rs}

\* ------------------------------------------------- listen_for_events
\* One "for listener in <list>: listener(chunk)" loop from position i on.
\* boom is the callback that raises when it is called (NoCb: none does);
\* the exception leaves the loop.
RECURSIVE RunListeners(_, _, _, _, _, _)
RunListeners(lst, i, kind, k, chunk, boom) ==
    IF i > Len(lst) THEN [calls |-> <<>>, exc |-> FALSE]
    ELSE LET call == [kind |-> kind, cb |-> lst[i], k |-> k, chunk |-> chunk]
         IN IF lst[i] = boom
            THEN [calls |-> <<call>>, exc |-> TRUE]
            ELSE LET rest == RunListeners(lst, i + 1, kind, k, chunk, boom)
                 IN [calls |-> <<call>> \o rest.calls, exc |-> rest.exc]

\* DispatchChunk with the room's listeners called before the global ones.
DispatchChunkRoomFirst(st, ls, k, chunk, boom) ==
    IF "room_id" \notin DOMAIN chunk
    THEN LET g == RunListeners(ls, 1, "global", k, chunk, boom)
         IN [rooms |-> st.rooms, calls |-> st.calls \o g.calls,
             exc |-> g.exc]
    ELSE LET rid == chunk.room_id
             rs1 == IF rid \notin DOMAIN st.rooms
                    THEN Mkroom(st.rooms, rid) ELSE st.rooms
             rs2 == [rs1 EXCEPT ![rid].events = Append(@, chunk)]
             app == [kind |-> "append", cb |-> NoCb, k |-> k, chunk |-> chunk]
             r == RunListeners(rs2[rid].listeners, 1, "room", k, chunk, boom)
             g == IF r.exc THEN [calls |-> <<>>, exc |-> TRUE]
                  ELSE RunListeners(ls, 1, "global", k, chunk, boom)
         IN [rooms |-> rs2,
             calls |-> st.calls \o <<app>> \o r.calls \o g.calls,
             exc |-> g.exc]

\* DispatchChunk with the append to the event log after the room's
\* listeners instead of before them.
DispatchChunkAppendLast(st, ls, k, chunk, boom) ==
    LET g == RunListeners(ls, 1, "global", k, chunk, boom)
    IN IF g.exc \/ "room_id" \notin DOMAIN chunk
       THEN [rooms |-> st.rooms, calls |-> st.calls \o g.calls, exc |-> g.exc]
       ELSE LET rid == chunk.room_id
                rs1 == IF rid \notin DOMAIN st.rooms
                       THEN Mkroom(st.rooms, rid) ELSE st.rooms
                app == [kind |-> "append", cb |-> NoCb, k |-> k,
                        chunk |-> chunk]
                r == RunListeners(rs1[rid].listeners, 1, "room", k, chunk,
                                  boom)
            IN IF r.exc
               THEN [rooms |-> rs1, calls |-> st.calls \o g.calls \o r.calls,
                     exc |-> TRUE]
               ELSE [rooms |-> [rs1 EXCEPT ![rid].events = Append(@, chunk)],
                     calls |-> st.calls \o g.calls \o r.calls \o <<app>>,
                     exc |-> FALSE]

\* DispatchChunk with a state chunk also projected onto the room's cached
\* name, topic or aliases, as _sync does with state events.
DispatchChunkProjecting(st, ls, k, chunk, boom) ==
    LET g == RunListeners(ls, 1, "global", k, chunk, boom)
    IN IF g.exc \/ "room_id" \notin DOMAIN chunk
       THEN [rooms |-> st.rooms, calls |-> st.calls \o g.calls, exc |-> g.exc]
       ELSE LET rid == chunk.room_id
                rs1 == IF rid \notin DOMAIN st.rooms
                       THEN Mkroom(st.rooms, rid) ELSE st.rooms
                has(t, f) == /\ "type" \in DOMAIN chunk /\ chunk.type = t
                             /\ "content" \in DOMAIN chunk
                             /\ f \in DOMAIN chunk.content
                rs2 == [rs1 EXCEPT
                          ![rid].events = Append(@, chunk),
                          ![rid].name = IF has("m.room.name", "name")
                                        THEN chunk.content.name ELSE @,
                          ![rid].topic = IF has("m.room.topic", "topic")
                                         THEN chunk.content.topic ELSE @,
                          ![rid].aliases =
                             IF has("m.room.aliases", "aliases")
                             THEN chunk.content.aliases ELSE @]
                app == [kind |-> "append", cb |-> NoCb, k |-> k,
                        chunk |-> chunk]
                r == RunListeners(rs2[rid].listeners, 1, "room", k, chunk,
                                  boom)
            IN [rooms |-> rs2,
                calls |-> st.calls \o g.calls \o <<app>> \o r.calls,
                exc |-> r.exc]

\* The body of "for chunk in response['chunk']" for the k-th chunk.
DispatchChunk(st, ls, k, chunk, boom) ==
    LET g == RunListeners(ls, 1, "global", k, chunk, boom)
    IN IF g.exc \/ "room_id" \notin DOMAIN chunk
       THEN [rooms |-> st.rooms, calls |-> st.calls \o g.calls, exc |-> g.exc]
       ELSE LET rid == chunk.room_id
                rs1 == IF rid \notin DOMAIN st.rooms
                       THEN Mkroom(st.rooms, rid) ELSE st.rooms
                rs2 == [rs1 EXCEPT ![rid].events = Append(@, chunk)]
                app == [kind |-> "append", cb |-> NoCb, k |-> k,
                        chunk |-> chunk]
                r == RunListeners(rs2[rid].listeners, 1, "room", k, chunk,
                                  boom)
            IN [rooms |-> rs2,
                calls |-> st.calls \o g.calls \o <<app>> \o r.calls,
                exc |-> r.exc]

RECURSIVE DispatchFrom(_, _, _, _, _)
DispatchFrom(st, ls, chunks, k, boom) ==
    IF k > Len(chunks) \/ st.exc THEN st
    ELSE DispatchFrom(DispatchChunk(st, ls, k, chunks[k], boom),
                      ls, chunks, k + 1, boom)

\* ListenForEvents with the cursor advanced only when chunks came.
ListenForEventsKeepCursorOnEmpty(rs, ls, e, resp, boom) ==
    IF "end" \notin DOMAIN resp
    THEN [rooms |-> rs, end |-> e, calls |-> <<>>, ret |-> "KeyError"]
    ELSE IF "chunk" \notin DOMAIN resp
    THEN [rooms |-> rs, end |-> resp.end, calls |-> <<>>, ret |-> "KeyError"]
    ELSE LET st == DispatchFrom([rooms |-> rs, calls |-> <<>>, exc |-> FALSE],
                                ls, resp.chunk, 1, boom)
         IN [rooms |-> st.rooms,
             end |-> IF resp.chunk = <<>> THEN e ELSE resp.end,
             calls |-> st.calls,
             ret |-> IF st.exc THEN "ListenerError" ELSE None]

\* listen_for_events after the transport has answered with the dict resp.
ListenForEvents(rs, ls, e, resp, boom) ==
    IF "end" \notin DOMAIN resp
    THEN [rooms |-> rs, end |-> e, calls |-> <<>>, ret |-> "KeyError"]
    ELSE IF "chunk" \notin DOMAIN resp
    THEN [rooms |-> rs, end |-> resp.end, calls |-> <<>>, ret |-> "KeyError"]
    ELSE LET st == DispatchFrom([rooms |-> rs, calls |-> <<>>, exc |-> FALSE],
                                ls, resp.chunk, 1, boom)
         IN [rooms |-> st.rooms, end |-> resp.end, calls |-> st.calls,
             ret |-> IF st.exc THEN "ListenerError" ELSE None]

\* What api.event_stream may answer when the events in pending are still
\* to be delivered: a well-formed dict, or one that lacks a key.
StreamResponses(pending) ==
    [end : Tokens, chunk : DistinctSeqs(pending, MaxChunks)]
      \cup [end : Tokens] \cup [chunk : {<<>>}]

\* ------------------------------------------------------------- _sync
\* ProcessStateEvent with the m.room.topic branch assigning to name.
ProcessStateEventTopicIntoName(state_event, room) ==
    IF "type" \notin DOMAIN state_event THEN [room |-> room, exc |-> FALSE]
    ELSE LET etype == state_event.type
             has(f) == /\ "content" \in DOMAIN state_event
                       /\ f \in DOMAIN state_event.content
         IN IF etype = "m.room.name"
            THEN IF has("name")
                 THEN [room |-> [room EXCEPT !.name = state_event.content.name],
                       exc |-> FALSE]
                 ELSE [room |-> room, exc |-> TRUE]
            ELSE IF etype = "m.room.topic"
            THEN IF has("topic")
                 THEN [room |-> [room EXCEPT
                                   !.name = state_event.content.topic],
                       exc |-> FALSE]
                 ELSE [room |-> room, exc |-> TRUE]
            ELSE IF etype = "m.room.aliases"
            THEN IF has("aliases")
                 THEN [room |-> [room EXCEPT
                                   !.aliases = state_event.content.aliases],
                       exc |-> FALSE]
                 ELSE [room |-> room, exc |-> TRUE]
            ELSE [room |-> room, exc |-> FALSE]

\* ProcessStateEvent with the m.room.aliases branch extending the cached
\* list instead of replacing it.
ProcessStateEventExtendAliases(state_event, room) ==
    IF "type" \notin DOMAIN state_event THEN [room |-> room, exc |-> FALSE]
    ELSE LET etype == state_event.type
             has(f) == /\ "content" \in DOMAIN state_event
                       /\ f \in DOMAIN state_event.content
         IN IF etype = "m.room.name"
            THEN IF has("name")
                 THEN [room |-> [room EXCEPT !.name = state_event.content.name],
                       exc |-> FALSE]
                 ELSE [room |-> room, exc |-> TRUE]
            ELSE IF etype = "m.room.topic"
            THEN IF has("topic")
                 THEN [room |-> [room EXCEPT
                                   !.topic = state_event.content.topic],
                       exc |-> FALSE]
                 ELSE [room |-> room, exc |-> TRUE]
            ELSE IF etype = "m.room.aliases"
            THEN IF has("aliases")
                 THEN [room |-> [room EXCEPT
                                   !.aliases =
                                      @ \o state_event.content.aliases],
                       exc |-> FALSE]
                 ELSE [room |-> room, exc |-> TRUE]
            ELSE [room |-> room, exc |-> FALSE]

\* _process_state_event; exc is the KeyError of a missing content field.
ProcessStateEvent(state_event, room) ==
    IF "type" \notin DOMAIN state_event THEN [room |-> room, exc |-> FALSE]
    ELSE LET etype == state_event.type
             has(f) == /\ "content" \in DOMAIN state_event
                       /\ f \in DOMAIN state_event.content
         IN IF etype = "m.room.name"
            THEN IF has("name")
                 THEN [room |-> [room EXCEPT !.name = state_event.content.name],
                       exc |-> FALSE]
                 ELSE [room |-> room, exc |-> TRUE]
            ELSE IF etype = "m.room.topic"
            THEN IF has("topic")
                 THEN [room |-> [room EXCEPT
                                   !.topic = state_event.content.topic],
                       exc |-> FALSE]
                 ELSE [room |-> room, exc |-> TRUE]
            ELSE IF etype = "m.room.aliases"
            THEN IF has("aliases")
                 THEN [room |-> [room EXCEPT
                                   !.aliases = state_event.content.aliases],
                       exc |-> FALSE]
                 ELSE [room |-> room, exc |-> TRUE]
            ELSE [room |-> room, exc |-> FALSE]

\* "for state_event in room['state']" from position i on.
RECURSIVE ProcessState(_, _, _)
ProcessState(room, state, i) ==
    IF i > Len(state) THEN [room |-> room, exc |-> FALSE]
    ELSE LET one == ProcessStateEvent(state[i], room)
         IN IF one.exc THEN one ELSE ProcessState(one.room, state, i + 1)

\* SyncRoom with the registry put back as it was when a field is missing.
SyncRoomRollback(rs, room) ==
    IF "room_id" \notin DOMAIN room THEN [rooms |-> rs, exc |-> TRUE]
    ELSE LET rid == room.room_id
             rs1 == Mkroom(rs, rid)
         IN IF \/ "messages" \notin DOMAIN room
               \/ "chunk" \notin DOMAIN room.messages
            THEN [rooms |-> rs, exc |-> TRUE]
            ELSE LET rs2 == [rs1 EXCEPT
                               ![rid].events = @ \o room.messages.chunk]
                 IN IF "state" \notin DOMAIN room
                    THEN [rooms |-> rs, exc |-> TRUE]
                    ELSE LET p == ProcessState(rs2[rid], room.state, 1)
                         IN [rooms |-> IF p.exc THEN rs
                                       ELSE [rs2 EXCEPT ![rid] = p.room],
                             exc |-> p.exc]

\* The body of "for room in response['rooms']" for one room descriptor.
SyncRoom(rs, room) ==
    IF "room_id" \notin DOMAIN room THEN [rooms |-> rs, exc |-> TRUE]
    ELSE LET rid == room.room_id
             rs1 == Mkroom(rs, rid)
         IN IF \/ "messages" \notin DOMAIN room
               \/ "chunk" \notin DOMAIN room.messages
            THEN [rooms |-> rs1, exc |-> TRUE]
            ELSE LET rs2 == [rs1 EXCEPT
                               ![rid].events = @ \o room.messages.chunk]
                 IN IF "state" \notin DOMAIN room
                    THEN [rooms |-> rs2, exc |-> TRUE]
                    ELSE LET p == ProcessState(rs2[rid], room.state, 1)
                         IN [rooms |-> [rs2 EXCEPT ![rid] = p.room],
                             exc |-> p.exc]

RECURSIVE SyncRooms(_, _, _)
SyncRooms(rs, descs, i) ==
    IF i > Len(descs) THEN [rooms |-> rs, exc |-> FALSE]
    ELSE LET one == SyncRoom(rs, descs[i])
         IN IF one.exc THEN one ELSE SyncRooms(one.rooms, descs, i + 1)

\* _sync after api.initial_sync has answered with the dict response; exc is
\* the KeyError that the except clause swallows.
Sync(rs, e, response) ==
    IF "end" \notin DOMAIN response
    THEN [rooms |-> rs, end |-> e, exc |-> TRUE]
    ELSE IF "rooms" \notin DOMAIN response
    THEN [rooms |-> rs, end |-> response.end, exc |-> TRUE]
    ELSE LET s == SyncRooms(rs, response.rooms, 1)
         IN [rooms |-> s.rooms, end |-> response.end, exc |-> s.exc]

\* --------------------------------------------------------------- actions
\* The caller takes the result of the call that has returned.
Return ==
    /\ last.op # "idle"
    /\ last' = Idle
    /\ calls' = <<>>
    /\ UNCHANGED <<rooms, listeners, end, stream, issued>>
    /\ UNCHANGED thread

\* MatrixClient.add_listener
AddListener ==
    /\ last.op = "idle"
    /\ \E cb \in Callbacks \ Registered(rooms, listeners) :
          listeners' = Append(listeners, cb)
    /\ UNCHANGED <<rooms, end, stream, issued, calls, last>>
    /\ UNCHANGED thread

\* Room.add_listener, on a room of the registry
RoomAddListener ==
    /\ last.op = "idle"
    /\ \E r \in DOMAIN rooms, cb \in Callbacks \ Registered(rooms, listeners) :
          rooms' = [rooms EXCEPT ![r].listeners = Append(@, cb)]
    /\ UNCHANGED <<listeners, end, stream, issued, calls, last>>
    /\ UNCHANGED thread

\* MatrixClient.create_room: the homeserver answers with the id of the room
\* it has made, or the request fails.
CreateRoom ==
    /\ last.op = "idle"
    /\ \/ \E rid \in RoomIds \ DOMAIN rooms :
             /\ rooms' = Mkroom(rooms, rid)
             /\ last' = Result("create_room", rid, TRUE, "Room",
                               [room_id |-> rid], NoCb)
       \/ /\ last' = Result("create_room", NoRoom, FALSE,
                             "MatrixRequestError",
                             NoResp, NoCb)
          /\ UNCHANGED rooms
    /\ UNCHANGED <<listeners, end, stream, issued, calls>>
    /\ UNCHANGED thread

\* MatrixClient.join_room: the answer may or may not carry a room_id.
JoinRoom ==
    /\ last.op = "idle"
    /\ \E room_id_or_alias \in RoomIds :
          \/ \E response \in {<<>>} \cup [room_id : RoomIds] :
               LET room_id == IF "room_id" \in DOMAIN response
                              THEN response.room_id ELSE room_id_or_alias
               IN /\ rooms' = Mkroom(rooms, room_id)
                  /\ last' = Result("join_room", room_id, TRUE, "Room",
                                    response,
                                    NoCb)
          \/ /\ last' = Result("join_room", room_id_or_alias, FALSE,
                                "MatrixRequestError", NoResp, NoCb)
             /\ UNCHANGED rooms
    /\ UNCHANGED <<listeners, end, stream, issued, calls>>
    /\ UNCHANGED thread

\* ListenForEventsCall with the MatrixRequestError of api.event_stream
\* caught: the call returns.
ListenForEventsCallSwallow ==
    /\ last.op = "idle"
    /\ IF end = Unset
       THEN \* self.end is read before the transport is called
            /\ last' = Result("listen_for_events", NoRoom, FALSE,
                              "AttributeError",
                              NoResp, NoCb)
            /\ UNCHANGED <<rooms, end, stream, issued, calls>>
       ELSE \/ \E resp \in StreamResponses(stream),
                  boom \in {NoCb} \cup Registered(rooms, listeners) :
                 LET out == ListenForEvents(rooms, listeners, end, resp, boom)
                 IN /\ rooms' = out.rooms
                    /\ end' = out.end
                    /\ stream' = IF "chunk" \in DOMAIN resp
                                 THEN stream \ Range(resp.chunk) ELSE stream
                    /\ issued' = Issue("event_stream", resp)
                    /\ calls' = out.calls
                    /\ last' = Result("listen_for_events", NoRoom, TRUE,
                                      out.ret,
                                      resp, boom)
            \/ /\ last' = Result("listen_for_events", NoRoom, FALSE,
                                  None, NoResp, NoCb)
               /\ UNCHANGED <<rooms, end, stream, issued, calls>>
    /\ UNCHANGED listeners
    /\ UNCHANGED thread

\* MatrixClient.listen_for_events
ListenForEventsCall ==
    /\ last.op = "idle"
    /\ IF end = Unset
       THEN \* self.end is read before the transport is called
            /\ last' = Result("listen_for_events", NoRoom, FALSE,
                              "AttributeError",
                              NoResp, NoCb)
            /\ UNCHANGED <<rooms, end, stream, issued, calls>>
       ELSE \/ \E resp \in StreamResponses(stream),
                  boom \in {NoCb} \cup Registered(rooms, listeners) :
                 LET out == ListenForEvents(rooms, listeners, end, resp, boom)
                 IN /\ rooms' = out.rooms
                    /\ end' = out.end
                    /\ stream' = IF "chunk" \in DOMAIN resp
                                 THEN stream \ Range(resp.chunk) ELSE stream
                    /\ issued' = Issue("event_stream", resp)
                    /\ calls' = out.calls
                    /\ last' = Result("listen_for_events", NoRoom, TRUE,
                                      out.ret,
                                      resp, boom)
            \/ /\ last' = Result("listen_for_events", NoRoom, FALSE,
                                  "MatrixRequestError", NoResp, NoCb)
               /\ UNCHANGED <<rooms, end, stream, issued, calls>>
    /\ UNCHANGED listeners
    /\ UNCHANGED thread

\* login_with_password (register_with_password is the same code): the login
\* request, then _sync on one of the given initial-sync answers.
Login(responses) ==
    /\ last.op = "idle"
    /\ \/ \E response \in responses :
             LET out == Sync(rooms, end, response)
             IN /\ rooms' = out.rooms
                /\ end' = out.end
                /\ issued' = Issue("initial_sync", response)
                /\ last' = Result("login", NoRoom, TRUE,
                                  IF out.exc THEN "token/KeyError"
                                  ELSE "token", response, NoCb)
       \/ /\ last' = Result("login", NoRoom, FALSE, "MatrixRequestError",
                             NoResp, NoCb)
          /\ UNCHANGED <<rooms, end, issued>>
    /\ UNCHANGED <<listeners, stream, calls>>
    /\ UNCHANGED thread

\* ---------------------------------------------------------------- upload
ContentUris == {"mxc://x/1"}
\* the codes a MatrixRequestError of api.media_upload may carry
Codes == {"400", "500"}

\* What api.media_upload may answer when it does not raise.
UploadResponses == {<<>>} \cup [content_uri : ContentUris]

\* MatrixRequestError(code=code, ...), as the caller catches it.
RequestError(code) == [c \in Codes |-> IF c = "400"
                                       THEN "MatrixRequestError(400)"
                                       ELSE "MatrixRequestError(500)"][code]

\* Whether "except MatrixRequestError" catches the exception: the two
\* exception classes of matrix_client.api are unrelated.
IsRequestError(exc) == exc = "MatrixRequestError"

\* Upload with "except MatrixRequestError: return None".
UploadSwallow(ok, response, code) ==
    LET raised == IF ~ok THEN "MatrixRequestError"
                  ELSE IF "content_uri" \in DOMAIN response THEN None
                  ELSE "MatrixUnexpectedResponse"
    IN IF raised = None THEN response.content_uri
       ELSE IF IsRequestError(raised) THEN None
       ELSE raised

\* MatrixClient.upload once api.media_upload has answered with response
\* (ok) or raised MatrixRequestError with the given code: what upload
\* returns or raises.
Upload(ok, response, code) ==
    LET raised == IF ~ok THEN "MatrixRequestError"
                  ELSE IF "content_uri" \in DOMAIN response THEN None
                  ELSE "MatrixUnexpectedResponse"
    IN IF raised = None THEN response.content_uri
       ELSE IF IsRequestError(raised) THEN RequestError(code)
       ELSE raised

\* MatrixClient.upload; a failed call is recorded with the transport
\* error's code as its answer.
UploadCall ==
    /\ last.op = "idle"
    /\ \/ \E response \in UploadResponses :
             last' = Result("upload", NoRoom, TRUE,
                            Upload(TRUE, response, "400"), response, NoCb)
       \/ \E code \in Codes :
             last' = Result("upload", NoRoom, FALSE,
                            Upload(FALSE, NoResp, code), [code |-> code],
                            NoCb)
    /\ UNCHANGED <<rooms, listeners, end, stream, issued, calls>>
    /\ UNCHANGED thread

\* MatrixClient.__init__ without a token
Init ==
    /\ rooms = <<>>
    /\ listeners = <<>>
    /\ end = Unset
    /\ stream = Chunks
    /\ issued = [by |-> None, end |-> None]
    /\ calls = <<>>
    /\ last = Idle
    /\ thread = NoThread

\* Initial-sync answers of an account with at most one room and no state.
BriefSyncResponses ==
    [end : Tokens,
     rooms : SeqUpTo([room_id : RoomIds,
                      messages : [chunk : {<<>>}],
                      state : {<<>>}], 1)]

LoginBrief == Login(BriefSyncResponses)

Next ==
    \/ AddListener
    \/ RoomAddListener
    \/ CreateRoom
    \/ JoinRoom
    \/ ListenForEventsCall
    \/ LoginBrief
    \/ UploadCall
    \/ Return

Spec == Init /\ [][Next]_vars

\* ------------------------------------------------------ Room operations
\* length of the room-state answer that update_aliases scans
MaxState == 2

Names == {"Lobby", "Hall"}
Topics == {"News"}
AliasLists == {<<"#a:x">>, <<"#b:x">>}

\* Moderate with the except branch returning True as well.
ModerateAlwaysTrue(ok) == "True"

\* Room.invite_user, Room.kick_user, Room.ban_user: try the transport call,
\* return True; except MatrixRequestError: return False.  ok says whether
\* the transport call came back without raising.
Moderate(ok) == IF ok THEN "True" ELSE "False"

\* Room.leave once api.leave_room has come back (ok) or raised
\* MatrixRequestError.  self.client.rooms is a dict, and a dict has no
\* remove(): the statement after the transport call raises AttributeError,
\* which "except MatrixRequestError" does not catch.
Leave(rs, room_id, ok) ==
    IF ok THEN [rooms |-> rs, ret |-> "AttributeError"]
    ELSE [rooms |-> rs, ret |-> "False"]

\* UpdateRoomName without the comparison with the cached name.
UpdateRoomNameNoCompare(room, response) ==
    IF "name" \in DOMAIN response
    THEN [room |-> [room EXCEPT !.name = response.name], ret |-> "True"]
    ELSE [room |-> room, ret |-> "False"]

\* Room.update_room_name once api.get_room_name has answered with response.
UpdateRoomName(room, response) ==
    IF "name" \in DOMAIN response /\ response.name # room.name
    THEN [room |-> [room EXCEPT !.name = response.name], ret |-> "True"]
    ELSE [room |-> room, ret |-> "False"]

\* Room.update_room_topic once api.get_room_topic has answered.
UpdateRoomTopic(room, response) ==
    IF "topic" \in DOMAIN response /\ response.topic # room.topic
    THEN [room |-> [room EXCEPT !.topic = response.topic], ret |-> "True"]
    ELSE [room |-> room, ret |-> "False"]

\* Room.update_aliases, "for chunk in response" from position i on; the
\* function ends without a return statement when no chunk matches.
RECURSIVE UpdateAliasesFrom(_, _, _)
UpdateAliasesFrom(room, response, i) ==
    IF i > Len(response) THEN [room |-> room, ret |-> None]
    ELSE LET chunk == response[i]
         IN IF "content" \in DOMAIN chunk /\ "aliases" \in DOMAIN chunk.content
            THEN IF chunk.content.aliases # room.aliases
                 THEN [room |-> [room EXCEPT
                                   !.aliases = chunk.content.aliases],
                       ret |-> "True"]
                 ELSE [room |-> room, ret |-> "False"]
            ELSE UpdateAliasesFrom(room, response, i + 1)

\* UpdateAliases without "else: return False": a chunk whose aliases equal
\* the cache does not end the scan.
RECURSIVE UpdateAliasesPastEqualFrom(_, _, _)
UpdateAliasesPastEqualFrom(room, response, i) ==
    IF i > Len(response) THEN [room |-> room, ret |-> None]
    ELSE LET chunk == response[i]
         IN IF /\ "content" \in DOMAIN chunk
               /\ "aliases" \in DOMAIN chunk.content
               /\ chunk.content.aliases # room.aliases
            THEN [room |-> [room EXCEPT !.aliases = chunk.content.aliases],
                  ret |-> "True"]
            ELSE UpdateAliasesPastEqualFrom(room, response, i + 1)

UpdateAliasesPastEqual(room, response) ==
    UpdateAliasesPastEqualFrom(room, response, 1)

UpdateAliases(room, response) == UpdateAliasesFrom(room, response, 1)

\* What the transport may answer to get_room_name, get_room_topic and
\* get_room_state.
NameResponses == {<<>>} \cup [name : Names]
TopicResponses == {<<>>} \cup [topic : Topics]
StateChunks ==
    [type : {"m.room.aliases"}, content : [aliases : AliasLists]]
      \cup {[type |-> "m.room.name", content |-> [name |-> "Lobby"]],
            [type |-> "m.room.member"]}
StateResponses == SeqUpTo(StateChunks, MaxState)

\* One of the three calls op on a room of the registry.
ModerateCall(op) ==
    /\ last.op = "idle"
    /\ \E r \in DOMAIN rooms, ok \in BOOLEAN :
          last' = Result(op, r, ok, Moderate(ok), NoResp, NoCb)
    /\ UNCHANGED <<rooms, listeners, end, stream, issued, calls>>
    /\ UNCHANGED thread

InviteUser == ModerateCall("invite_user")
KickUser == ModerateCall("kick_user")
BanUser == ModerateCall("ban_user")

LeaveCall ==
    /\ last.op = "idle"
    /\ \E r \in DOMAIN rooms, ok \in BOOLEAN :
          LET out == Leave(rooms, r, ok)
          IN /\ rooms' = out.rooms
             /\ last' = Result("leave", r, ok, out.ret, NoResp, NoCb)
    /\ UNCHANGED <<listeners, end, stream, issued, calls>>
    /\ UNCHANGED thread

\* A call that refreshes one cached value of a room of the registry: the
\* transport answers with one of responses, or raises MatrixRequestError.
Update(op, room, response) ==
    CASE op = "update_room_name" -> UpdateRoomName(room, response)
      [] op = "update_room_topic" -> UpdateRoomTopic(room, response)
      [] op = "update_aliases" -> UpdateAliases(room, response)

Refresh(op, responses) ==
    /\ last.op = "idle"
    /\ \E r \in DOMAIN rooms :
          \/ \E response \in responses :
               LET out == Update(op, rooms[r], response)
               IN /\ rooms' = [rooms EXCEPT ![r] = out.room]
                  /\ last' = Result(op, r, TRUE, out.ret, response, NoCb)
          \/ /\ last' = Result(op, r, FALSE, "False", NoResp, NoCb)
             /\ UNCHANGED rooms
    /\ UNCHANGED <<listeners, end, stream, issued, calls>>
    /\ UNCHANGED thread

UpdateRoomNameCall ==
    Refresh("update_room_name", NameResponses)
UpdateRoomTopicCall ==
    Refresh("update_room_topic", TopicResponses)
UpdateAliasesCall ==
    Refresh("update_aliases", StateResponses)

\* MatrixClient.__init__ with a token: _sync runs.  The account is in one
\* or two rooms, each with one message of history.
JoinedSyncResponses ==
    LET desc(rid) == [room_id |-> rid,
                      messages |-> [chunk |-> <<[type |-> "m.room.message",
                                                 room_id |-> rid]>>],
                      state |-> <<>>]
    IN {[end |-> "tok1", rooms |-> <<desc("!a:x")>>],
        [end |-> "tok1", rooms |-> <<desc("!a:x"), desc("!b:x")>>]}

InitRoom ==
    \E response \in JoinedSyncResponses :
      LET out == Sync(<<>>, Unset, response)
      IN /\ rooms = out.rooms
         /\ end = out.end
         /\ listeners = <<>>
         /\ stream = Chunks
         /\ issued = [by |-> "initial_sync", end |-> response.end]
         /\ calls = <<>>
         /\ last = Idle
         /\ thread = NoThread

NextRoom ==
    \/ RoomAddListener
    \/ InviteUser
    \/ KickUser
    \/ BanUser
    \/ LeaveCall
    \/ UpdateRoomNameCall
    \/ UpdateRoomTopicCall
    \/ UpdateAliasesCall
    \/ Return

SpecRoom == InitRoom /\ [][NextRoom]_vars

\* ------------------------------------------- construction with a token
\* The history an initial sync may carry for a room, and the state events.
HistoryChunks == {[type |-> "m.room.message", body |-> "hi"],
                  [type |-> "m.room.message", body |-> "yo"]}
StateEvents ==
    [type : {"m.room.name"}, content : [name : Names]]
      \cup [type : {"m.room.topic"}, content : [topic : Topics]]
      \cup [type : {"m.room.aliases"}, content : [aliases : {<<"#a:x">>}]]

\* What api.initial_sync may answer: a room descriptor for each room the
\* homeserver lists (it may list a room twice), each with some history and
\* some state events, no event twice.
RoomDescriptors ==
    [room_id : RoomIds,
     messages : [chunk : DistinctSeqs(HistoryChunks, MaxChunks)],
     state : DistinctSeqs(StateEvents, MaxState)]
SyncResponses ==
    [end : Tokens, rooms : SeqUpTo(RoomDescriptors, Cardinality(RoomIds))]

\* MatrixClient.__init__ with a token: the fields are set up and _sync runs
\* on the answer of api.initial_sync.
InitToken ==
    \E response \in SyncResponses :
      LET out == Sync(<<>>, Unset, response)
      IN /\ rooms = out.rooms
         /\ end = out.end
         /\ listeners = <<>>
         /\ stream = Chunks
         /\ issued = [by |-> "initial_sync", end |-> response.end]
         /\ calls = <<>>
         /\ last = [op |-> "__init__", arg |-> NoRoom, ok |-> TRUE,
                    ret |-> IF out.exc THEN "MatrixClient/KeyError"
                            ELSE "MatrixClient",
                    resp |-> response, boom |-> NoCb, sent |-> None,
                    pre |-> [rooms |-> <<>>, listeners |-> <<>>,
                             end |-> Unset,
                             issued |-> [by |-> None, end |-> None]]]
         /\ thread = NoThread

\* Later initial syncs (login_with_password on the running client): the
\* account has one room with one message and one state event.
LaterSyncResponses ==
    [end : Tokens,
     rooms : SeqUpTo([room_id : RoomIds,
                      messages : [chunk : {<<[type |-> "m.room.message",
                                              body |-> "hi"]>>}],
                      state : {<<>>, <<[type |-> "m.room.topic",
                                        content |-> [topic |-> "News"]]>>}],
                     1)]

LoginLater == Login(LaterSyncResponses)

NextSync ==
    \/ LoginLater
    \/ JoinRoom
    \/ Return

SpecSync == InitToken /\ [][NextSync]_vars

\* ---------------------------------------------------------------- claims
Polled == last.op = "listen_for_events"

\* The transport answered the poll with a dict that has both keys.
PolledWell ==
    /\ Polled
    /\ "end" \in DOMAIN last.resp
    /\ "chunk" \in DOMAIN last.resp

\* Position of x in the sequence s (0 when absent).
IndexOf(s, x) ==
    IF x \in Range(s) THEN CHOOSE i \in DOMAIN s : s[i] = x ELSE 0

\* The callbacks the call has invoked with the k-th chunk, for one scope.
Invoked(kind, k) ==
    {calls[i].cb : i \in {j \in DOMAIN calls :
                             calls[j].kind = kind /\ calls[j].k = k}}

\* The listeners of room rid when the dispatch of a chunk reached them.
RoomListenersAt(rid) ==
    IF rid \in DOMAIN last.pre.rooms THEN last.pre.rooms[rid].listeners
    ELSE <<>>

\* C1: a room made again (create_room, join_room) for an id that the
\* registry already holds leaves the Room registered under that id as it
\* was: event log, listeners, name, topic and aliases.
C1_MkroomKeepsExisting ==
    (/\ last.op \in {"create_room", "join_room"}
     /\ last.ret = "Room"
     /\ last.arg \in DOMAIN last.pre.rooms)
    => rooms[last.arg] = last.pre.rooms[last.arg]

\* C2: after a poll that the transport answered, the cursor is the "end" of
\* that answer, whatever the chunk list holds; and the cursor handed to the
\* transport is the "end" of the answer before.
C2_CursorAdvance ==
    Polled =>
      /\ "end" \in DOMAIN last.resp => end = last.resp.end
      /\ last.ret # "AttributeError" => last.sent = last.pre.issued.end

C2_Witness ==
    /\ PolledWell
    /\ last.resp.chunk = <<>>
    /\ last.pre.issued.by = "event_stream"
    /\ last.resp.end # last.pre.end
    /\ end = last.resp.end

\* C3: the calls of one poll are in server order of the chunks; within a
\* chunk the global listeners come first, then the room's, each list in
\* registration order; every global listener has run before the first
\* room listener of the chunk, and every listener of a chunk has run
\* before anything is done with the next chunk.
C3_FanOutOrder ==
    PolledWell =>
      /\ \A i \in DOMAIN calls :
            /\ calls[i].k \in DOMAIN last.resp.chunk
            /\ calls[i].chunk = last.resp.chunk[calls[i].k]
      /\ \A i, j \in DOMAIN calls : i < j =>
            /\ calls[i].k <= calls[j].k
            /\ calls[i].k = calls[j].k =>
                  /\ calls[j].kind = "global" =>
                        /\ calls[i].kind = "global"
                        /\ IndexOf(last.pre.listeners, calls[i].cb)
                             < IndexOf(last.pre.listeners, calls[j].cb)
                  /\ (calls[i].kind = "room" /\ calls[j].kind = "room") =>
                        LET ls == RoomListenersAt(calls[i].chunk.room_id)
                        IN /\ IndexOf(ls, calls[i].cb) > 0
                           /\ IndexOf(ls, calls[i].cb)
                                < IndexOf(ls, calls[j].cb)
            /\ (calls[j].kind = "room" \/ calls[i].k < calls[j].k) =>
                  Invoked("global", calls[i].k) = Range(last.pre.listeners)
            /\ (calls[i].k < calls[j].k
                  /\ "room_id" \in DOMAIN calls[i].chunk) =>
                  Invoked("room", calls[i].k)
                    = Range(RoomListenersAt(calls[i].chunk.room_id))

C3_Witness ==
    /\ PolledWell
    /\ Len(last.resp.chunk) = 2
    /\ Len(last.pre.listeners) = 1
    /\ \E i \in DOMAIN calls : calls[i].kind = "room" /\ calls[i].k = 1
    /\ \E i \in DOMAIN calls : calls[i].kind = "global" /\ calls[i].k = 2

C3_WitnessRegistrationOrder ==
    /\ PolledWell
    /\ Len(last.pre.listeners) = 2
    /\ Len(calls) >= 2

\* The chunks of the answer that carry room_id rid, in server order.
RECURSIVE ChunksFor(_, _)
ChunksFor(chunks, rid) ==
    IF chunks = <<>> THEN <<>>
    ELSE (IF "room_id" \in DOMAIN Head(chunks) /\ Head(chunks).room_id = rid
          THEN <<Head(chunks)>> ELSE <<>>) \o ChunksFor(Tail(chunks), rid)

\* C4: after a poll that returned, for every chunk with a room_id: the room
\* is registered (made empty if it was not), its log is the log before
\* with the room's chunks appended, the append came before the room's
\* listeners were called, and every global listener and every listener of
\* the room was called exactly once with the chunk.
C4_RoomChunkDelivery ==
    (PolledWell /\ last.ret = None) =>
      \A k \in DOMAIN last.resp.chunk :
        LET chunk == last.resp.chunk[k]
            at(kind, cb) == {i \in DOMAIN calls :
                               /\ calls[i].kind = kind /\ calls[i].cb = cb
                               /\ calls[i].k = k /\ calls[i].chunk = chunk}
        IN /\ \A cb \in Range(last.pre.listeners) :
                 Cardinality(at("global", cb)) = 1
           /\ "room_id" \in DOMAIN chunk =>
                 LET rid == chunk.room_id
                     was == IF rid \in DOMAIN last.pre.rooms
                            THEN last.pre.rooms[rid] ELSE Room(rid)
                 IN /\ rid \in DOMAIN rooms
                    /\ rooms[rid] =
                         [was EXCEPT !.events =
                             @ \o ChunksFor(last.resp.chunk, rid)]
                    /\ Cardinality(at("append", NoCb)) = 1
                    /\ \A cb \in Range(rooms[rid].listeners) :
                         /\ Cardinality(at("room", cb)) = 1
                         /\ \A i \in at("room", cb), j \in at("append", NoCb) :
                              j < i

C4_Witness ==
    /\ PolledWell /\ last.ret = None
    /\ \E k \in DOMAIN last.resp.chunk :
          /\ "room_id" \in DOMAIN last.resp.chunk[k]
          /\ last.resp.chunk[k].room_id \in DOMAIN last.pre.rooms
          /\ rooms[last.resp.chunk[k].room_id].listeners # <<>>
          /\ last.pre.rooms[last.resp.chunk[k].room_id].events # <<>>
    /\ last.pre.listeners # <<>>

C4_WitnessNewRoom ==
    /\ PolledWell /\ last.ret = None
    /\ \E rid \in DOMAIN rooms \ DOMAIN last.pre.rooms :
          Len(rooms[rid].events) = 2

\* C5: a listener that raises does not stop the poll: every chunk of the
\* answer still reaches every listener, and every chunk with a room_id is
\* still appended to its room's log.
C5_ListenerFailureIsolated ==
    PolledWell =>
      \A k \in DOMAIN last.resp.chunk :
        LET chunk == last.resp.chunk[k]
        IN /\ Invoked("global", k) = Range(last.pre.listeners)
           /\ "room_id" \in DOMAIN chunk =>
                 /\ chunk.room_id \in DOMAIN rooms
                 /\ chunk \in Range(rooms[chunk.room_id].events)
                 /\ Invoked("room", k)
                      = Range(rooms[chunk.room_id].listeners)

\* The registry without the key room_id.
Without(rs, room_id) == [r \in DOMAIN rs \ {room_id} |-> rs[r]]

\* C7: leave() returns True and the room's id is no longer a key of the
\* registry (the other rooms as they were) when the transport call comes
\* back; it returns False and leaves the registry alone when the transport
\* raises MatrixRequestError.
C7_LeaveRemovesByKey ==
    last.op = "leave" =>
      IF last.ok
      THEN last.ret = "True" /\ rooms = Without(last.pre.rooms, last.arg)
      ELSE last.ret = "False" /\ rooms = last.pre.rooms

\* C8: invite_user, kick_user and ban_user return True exactly when the
\* transport raised no MatrixRequestError and False when it did; nothing
\* else escapes, and the registry, every room's fields, the cursor and the
\* client's listeners are as before.
C8_SwallowToBoolean ==
    last.op \in {"invite_user", "kick_user", "ban_user"} =>
      /\ last.ret \in {"True", "False"}
      /\ last.ret = "True" <=> last.ok
      /\ rooms = last.pre.rooms
      /\ end = last.pre.end
      /\ listeners = last.pre.listeners

C8_Witness ==
    /\ last.op = "kick_user"
    /\ ~last.ok
    /\ last.ret = "False"
    /\ rooms[last.arg].events # <<>>
    /\ rooms[last.arg].listeners # <<>>
    /\ rooms[last.arg].name # None

\* C9: update_room_name / update_room_topic return True iff the answer
\* carries the value and it differs from the cached one, and then the cache
\* holds the fetched value; otherwise (equal, absent, MatrixRequestError)
\* they return False and the room is as before.  A second call that gets
\* the same answer returns False.
C9_RefreshNameTopic ==
    /\ \A f \in {"name", "topic"} :
         last.op = (IF f = "name" THEN "update_room_name"
                    ELSE "update_room_topic") =>
           LET was == last.pre.rooms[last.arg]
               now == rooms[last.arg]
               differs == /\ last.ok
                          /\ f \in DOMAIN last.resp
                          /\ last.resp[f] # was[f]
           IN /\ last.ret = (IF differs THEN "True" ELSE "False")
              /\ differs => now = [was EXCEPT ![f] = last.resp[f]]
              /\ ~differs => now = was
              /\ \A r \in DOMAIN rooms \ {last.arg} :
                   rooms[r] = last.pre.rooms[r]
              /\ DOMAIN rooms = DOMAIN last.pre.rooms
    /\ last.op = "update_room_name" /\ last.ok =>
         UpdateRoomName(rooms[last.arg], last.resp).ret = "False"
    /\ last.op = "update_room_topic" /\ last.ok =>
         UpdateRoomTopic(rooms[last.arg], last.resp).ret = "False"

C9_Witness ==
    /\ last.op = "update_room_name"
    /\ last.ret = "True"
    /\ last.pre.rooms[last.arg].name = "Lobby"
    /\ rooms[last.arg].name = "Hall"

C9_WitnessTopicEqual ==
    /\ last.op = "update_room_topic"
    /\ last.ok
    /\ "topic" \in DOMAIN last.resp
    /\ last.ret = "False"
    /\ rooms[last.arg].topic = "News"

\* The chunks of a room-state answer whose content carries "aliases".
AliasChunks(response) ==
    {i \in DOMAIN response :
       /\ "content" \in DOMAIN response[i]
       /\ "aliases" \in DOMAIN response[i].content}

\* C10: update_aliases decides on the first chunk of the answer whose
\* content carries "aliases": the cache is that chunk's aliases afterwards
\* and the result is True iff they differed from the cache; a later
\* alias-bearing chunk changes neither.
C10_FirstAliasChunkDecides ==
    (/\ last.op = "update_aliases" /\ last.ok
     /\ AliasChunks(last.resp) # {}) =>
      LET first == CHOOSE i \in AliasChunks(last.resp) :
                     \A j \in AliasChunks(last.resp) : i <= j
          found == last.resp[first].content.aliases
          was == last.pre.rooms[last.arg]
      IN /\ rooms[last.arg] = [was EXCEPT !.aliases = found]
         /\ last.ret = (IF found # was.aliases THEN "True" ELSE "False")
         /\ \A r \in DOMAIN rooms \ {last.arg} : rooms[r] = last.pre.rooms[r]

C10_Witness ==
    /\ last.op = "update_aliases" /\ last.ok
    /\ Cardinality(AliasChunks(last.resp)) = 2
    /\ last.resp[1].content.aliases # last.resp[2].content.aliases
    /\ last.resp[2].content.aliases = last.pre.rooms[last.arg].aliases
    /\ last.ret = "True"

\* The last event of the list state with the given type (0: there is none).
LastOfType(state, type) ==
    LET of == {i \in DOMAIN state :
                 "type" \in DOMAIN state[i] /\ state[i].type = type}
    IN IF of = {} THEN 0 ELSE CHOOSE i \in of : \A j \in of : j <= i

IsSuffix(s, t) ==
    /\ Len(s) <= Len(t)
    /\ \A i \in DOMAIN s : s[i] = t[Len(t) - Len(s) + i]

\* An initial sync went through all of a well-formed answer: every key is
\* there and no room is listed twice.
Bootstrapped ==
    /\ last.op \in {"__init__", "login"}
    /\ last.ok
    /\ last.ret \in {"MatrixClient", "token"}
    /\ \A i, j \in DOMAIN last.resp.rooms :
         last.resp.rooms[i].room_id = last.resp.rooms[j].room_id => i = j

\* C6: after _sync on a well-formed answer the cursor is the answer's
\* "end"; every room descriptor's room is in the registry, its log ends
\* with the descriptor's message chunks in the order received, and its
\* name, topic and aliases are those of the last state event of each type
\* in the descriptor's list.
C6_BootstrapResult ==
    Bootstrapped =>
      /\ end = last.resp.end
      /\ \A i \in DOMAIN last.resp.rooms :
           LET d == last.resp.rooms[i]
               n == LastOfType(d.state, "m.room.name")
               t == LastOfType(d.state, "m.room.topic")
               a == LastOfType(d.state, "m.room.aliases")
           IN /\ d.room_id \in DOMAIN rooms
              /\ IsSuffix(d.messages.chunk, rooms[d.room_id].events)
              /\ n > 0 => rooms[d.room_id].name = d.state[n].content.name
              /\ t > 0 => rooms[d.room_id].topic = d.state[t].content.topic
              /\ a > 0 =>
                   rooms[d.room_id].aliases = d.state[a].content.aliases

C6_Witness ==
    /\ Bootstrapped
    /\ Len(last.resp.rooms) = 2
    /\ \E i \in DOMAIN last.resp.rooms :
         LET d == last.resp.rooms[i]
         IN /\ Len(d.messages.chunk) = 2
            /\ Len(d.state) = 2
            /\ d.state[1].type = "m.room.name"
            /\ d.state[2].type = "m.room.name"
            /\ d.state[1] # d.state[2]
            /\ rooms[d.room_id].name = d.state[2].content.name
            /\ rooms[d.room_id].events = d.messages.chunk

C6_WitnessLater ==
    /\ Bootstrapped
    /\ last.op = "login"
    /\ \E i \in DOMAIN last.resp.rooms :
         /\ last.resp.rooms[i].room_id \in DOMAIN last.pre.rooms
         /\ last.resp.rooms[i].state # <<>>

\* C11: update_aliases returns a boolean whatever the transport does; it
\* returns False and leaves the room as it was when the transport raises
\* MatrixRequestError and when no chunk of the answer (an empty answer
\* included) has a content that carries "aliases".
C11_AliasesBooleanContract ==
    last.op = "update_aliases" =>
      /\ last.ret \in {"True", "False"}
      /\ (~last.ok \/ AliasChunks(last.resp) = {}) =>
            /\ last.ret = "False"
            /\ rooms = last.pre.rooms

\* ------------------------------------------ partial initial-sync answers
\* State events as a partial answer may carry them: with the content field
\* of their type, without "content", with a content that lacks the field,
\* and without "type".
PartialStateEvents ==
    {[type |-> "m.room.name", content |-> [name |-> "Lobby"]],
     [type |-> "m.room.topic", content |-> [topic |-> "News"]],
     [type |-> "m.room.name"],
     [type |-> "m.room.topic", content |-> [name |-> "Hall"]],
     [content |-> [name |-> "Hall"]]}

PartialHistories == {<<>>, <<[type |-> "m.room.message", body |-> "hi"]>>}

\* Room descriptors of a partial answer: whole ones, and ones that lack
\* "state", the "chunk" of "messages", "messages", or "room_id".
PartialDescriptors ==
    [room_id : RoomIds, messages : [chunk : PartialHistories],
     state : DistinctSeqs(PartialStateEvents, MaxState)]
      \cup [room_id : RoomIds, messages : [chunk : PartialHistories]]
      \cup [room_id : RoomIds, messages : {<<>>}, state : {<<>>}]
      \cup [room_id : RoomIds]
      \cup [messages : [chunk : PartialHistories], state : {<<>>}]

\* What api.initial_sync may answer when fields are missing: no "end", no
\* "rooms", or room descriptors as above.
PartialSyncResponses ==
    [end : {"tok1"}, rooms : SeqUpTo(PartialDescriptors, Cardinality(RoomIds))]
      \cup [end : Tokens]
      \cup [rooms : SeqUpTo([room_id : RoomIds], 1)]

\* MatrixClient.__init__ with a token, api.initial_sync answering with a
\* partial answer.
InitPartial ==
    \E response \in PartialSyncResponses :
      LET out == Sync(<<>>, Unset, response)
      IN /\ rooms = out.rooms
         /\ end = out.end
         /\ listeners = <<>>
         /\ stream = Chunks
         /\ issued = IF "end" \in DOMAIN response
                     THEN [by |-> "initial_sync", end |-> response.end]
                     ELSE [by |-> None, end |-> None]
         /\ calls = <<>>
         /\ last = [op |-> "__init__", arg |-> NoRoom, ok |-> TRUE,
                    ret |-> IF out.exc THEN "MatrixClient/KeyError"
                            ELSE "MatrixClient",
                    resp |-> response, boom |-> NoCb, sent |-> None,
                    pre |-> [rooms |-> <<>>, listeners |-> <<>>,
                             end |-> Unset,
                             issued |-> [by |-> None, end |-> None]]]
         /\ thread = NoThread

\* Later initial syncs on the running client: one room descriptor, or a
\* top-level key missing.
LaterPartialSyncResponses ==
    [end : {"tok2"},
     rooms : SeqUpTo(
        [room_id : RoomIds,
         messages : [chunk : {<<[type |-> "m.room.message",
                                 body |-> "yo"]>>}],
         state : {<<[type |-> "m.room.name"]>>,
                  <<[type |-> "m.room.topic",
                     content |-> [topic |-> "News"]],
                    [type |-> "m.room.name", content |-> <<>>]>>}]
          \cup [room_id : RoomIds], 1)]
      \cup {[end |-> "tok2"], [rooms |-> <<>>]}

LoginPartial == Login(LaterPartialSyncResponses)

NextPartial ==
    \/ LoginPartial
    \/ Return

SpecPartial == InitPartial /\ [][NextPartial]_vars

\* The content field that _process_state_event reads for a state event of
\* the given type.
StateField(type) ==
    CASE type = "m.room.name" -> "name"
      [] type = "m.room.topic" -> "topic"
      [] type = "m.room.aliases" -> "aliases"

\* A state event of a projected type that lacks the content field of its
\* type.
LacksField(ev) ==
    /\ "type" \in DOMAIN ev
    /\ ev.type \in {"m.room.name", "m.room.topic", "m.room.aliases"}
    /\ ~ /\ "content" \in DOMAIN ev
         /\ StateField(ev.type) \in DOMAIN ev.content

\* The number of state events of the list before the first one that lacks
\* its field.
GoodPrefix(state) ==
    LET bad == {i \in DOMAIN state : LacksField(state[i])}
    IN IF bad = {} THEN Len(state)
       ELSE (CHOOSE i \in bad : \A j \in bad : i <= j) - 1

HasMessages(d) == "messages" \in DOMAIN d /\ "chunk" \in DOMAIN d.messages

\* A room descriptor with every expected field.
Whole(d) ==
    /\ "room_id" \in DOMAIN d
    /\ HasMessages(d)
    /\ "state" \in DOMAIN d
    /\ GoodPrefix(d.state) = Len(d.state)

\* The Room that the fields of the descriptor d up to the first missing one
\* describe.
Described(d) ==
    LET st == IF HasMessages(d) /\ "state" \in DOMAIN d
              THEN SubSeq(d.state, 1, GoodPrefix(d.state)) ELSE <<>>
        val(type, default) ==
            IF LastOfType(st, type) > 0
            THEN st[LastOfType(st, type)].content[StateField(type)]
            ELSE default
    IN [room_id |-> d.room_id, listeners |-> <<>>,
        events |-> IF HasMessages(d) THEN d.messages.chunk ELSE <<>>,
        name |-> val("m.room.name", None),
        aliases |-> val("m.room.aliases", <<>>),
        topic |-> val("m.room.topic", None)]

\* The descriptors of the list that carry a room_id, up to and including
\* the first one with a missing field.
Reached(descs) ==
    LET broken == {i \in DOMAIN descs : ~Whole(descs[i])}
        stop == IF broken = {} THEN Len(descs)
                ELSE CHOOSE i \in broken : \A j \in broken : i <= j
    IN {i \in 1..stop : "room_id" \in DOMAIN descs[i]}

\* The registry after the descriptors up to the first missing field have
\* been applied to the registry was: the room of each descriptor reached
\* (the last one, for a room listed twice) as described, the others as they
\* were.
AppliedPrefix(was, descs) ==
    LET hit(r) == {i \in Reached(descs) : descs[i].room_id = r}
    IN [r \in DOMAIN was \cup {descs[i].room_id : i \in Reached(descs)} |->
          IF hit(r) = {} THEN was[r]
          ELSE Described(descs[CHOOSE i \in hit(r) : \A j \in hit(r) : j <= i])]

\* C12: _sync returns without raising whatever field the initial-sync
\* answer lacks, and what was applied before the missing field is kept:
\* with no "end" nothing changes; otherwise the cursor is the answer's
\* "end" and the registry holds every room descriptor up to the first
\* missing field, each with the history and the state values that precede
\* the missing field.
C12_PartialBootstrap ==
    (last.op \in {"__init__", "login"} /\ last.ok) =>
      /\ last.ret \in {"MatrixClient", "MatrixClient/KeyError",
                       "token", "token/KeyError"}
      /\ IF "end" \notin DOMAIN last.resp
         THEN rooms = last.pre.rooms /\ end = last.pre.end
         ELSE /\ end = last.resp.end
              /\ rooms = IF "rooms" \notin DOMAIN last.resp
                         THEN last.pre.rooms
                         ELSE AppliedPrefix(last.pre.rooms, last.resp.rooms)

\* The second descriptor's second state event lacks its field: the first
\* room and the first state event of the second room are kept.
C12_Witness ==
    /\ last.op = "__init__"
    /\ last.ret = "MatrixClient/KeyError"
    /\ "rooms" \in DOMAIN last.resp
    /\ Len(last.resp.rooms) = 2
    /\ Whole(last.resp.rooms[1])
    /\ rooms[last.resp.rooms[1].room_id].events # <<>>
    /\ "state" \in DOMAIN last.resp.rooms[2]
    /\ Len(last.resp.rooms[2].state) = 2
    /\ GoodPrefix(last.resp.rooms[2].state) = 1
    /\ last.resp.rooms[2].room_id # last.resp.rooms[1].room_id
    /\ rooms[last.resp.rooms[2].room_id].name = "Lobby"

\* A later sync stops at a descriptor without "messages": the room it names
\* is made, a room it does not name is as it was.
C12_WitnessLater ==
    /\ last.op = "login" /\ last.ok
    /\ last.ret = "token/KeyError"
    /\ "rooms" \in DOMAIN last.resp
    /\ Len(last.resp.rooms) = 1
    /\ DOMAIN last.resp.rooms[1] = {"room_id"}
    /\ \E r \in DOMAIN last.pre.rooms \ {last.resp.rooms[1].room_id} :
          /\ rooms[r].events # <<>>
          /\ rooms[r].name # None

\* C13: a poll that the transport answered with a dict lacking "end" or
\* "chunk" returns to its caller without an error, and keeps what it had
\* applied: the cursor of the answer when "end" was there, the registry and
\* the listeners as they were.
C13_MalformedPollSwallowed ==
    (Polled /\ last.ok /\ ~PolledWell) =>
      /\ last.ret = None
      /\ end = (IF "end" \in DOMAIN last.resp THEN last.resp.end
                ELSE last.pre.end)
      /\ rooms = last.pre.rooms
      /\ listeners = last.pre.listeners

\* C14: when api.event_stream raises MatrixRequestError, listen_for_events
\* raises it to its caller; the cursor, the registry with every room's log
\* and cached state, and the listeners are as before, and no listener has
\* been called.
C14_PollFailurePropagates ==
    (Polled /\ ~last.ok /\ last.pre.end # Unset) =>
      /\ last.ret = "MatrixRequestError"
      /\ end = last.pre.end
      /\ rooms = last.pre.rooms
      /\ listeners = last.pre.listeners
      /\ issued = last.pre.issued
      /\ calls = <<>>

C14_Witness ==
    /\ Polled /\ ~last.ok
    /\ last.ret = "MatrixRequestError"
    /\ last.pre.listeners # <<>>
    /\ stream # {}
    /\ \E r \in DOMAIN rooms : /\ rooms[r].events # <<>>
                               /\ rooms[r].listeners # <<>>

\* C15: upload returns the answer's content_uri when it has one; it raises
\* MatrixUnexpectedResponse when the transport answered without one; it
\* raises MatrixRequestError with the transport error's code when the
\* transport raised; a failure never comes back as a return value.  The
\* client's fields are as before.
C15_UploadSurfacesErrors ==
    last.op = "upload" =>
      /\ IF last.ok
         THEN IF "content_uri" \in DOMAIN last.resp
              THEN last.ret = last.resp.content_uri
              ELSE last.ret = "MatrixUnexpectedResponse"
         ELSE last.ret = RequestError(last.resp.code)
      /\ last.ret \in ContentUris <=>
            (last.ok /\ "content_uri" \in DOMAIN last.resp)
      /\ rooms = last.pre.rooms
      /\ end = last.pre.end
      /\ listeners = last.pre.listeners

C15_Witness ==
    /\ last.op = "upload"
    /\ ~last.ok
    /\ last.resp.code = "500"
    /\ last.ret = "MatrixRequestError(500)"

C15_WitnessUnexpected ==
    /\ last.op = "upload"
    /\ last.ok
    /\ last.resp = <<>>
    /\ last.ret = "MatrixUnexpectedResponse"

\* ------------------------------------------------ _process_state_event
\* The state events _process_state_event may be handed: of the three
\* projected types, of a projected type without the content field, of
\* another type, and without "type".
ProjectedEvents ==
    [type : {"m.room.name"}, content : [name : Names]]
      \cup [type : {"m.room.topic"}, content : [topic : Topics]]
      \cup [type : {"m.room.aliases"}, content : [aliases : AliasLists]]
      \cup {[type |-> "m.room.name"],
            [type |-> "m.room.member", content |-> [name |-> "Hall"]],
            [content |-> [name |-> "Hall", topic |-> "News"]]}

\* A client whose registry holds one Room, in any cached state.
InitProject ==
    /\ \E name \in {None} \cup Names, topic \in {None} \cup Topics,
          aliases \in {<<>>} \cup AliasLists,
          events \in {<<>>, <<[type |-> "m.room.message", body |-> "hi"]>>},
          ls \in {<<>>, <<"f">>} :
          rooms = [r \in {"!a:x"} |->
                     [room_id |-> r, listeners |-> ls, events |-> events,
                      name |-> name, aliases |-> aliases, topic |-> topic]]
    /\ listeners = <<>>
    /\ end = "tok1"
    /\ stream = Chunks
    /\ issued = [by |-> "initial_sync", end |-> "tok1"]
    /\ calls = <<>>
    /\ last = Idle
    /\ thread = NoThread

\* self._process_state_event(state_event, current_room) on a room of the
\* registry.
ProcessStateEventCall ==
    /\ last.op = "idle"
    /\ \E r \in DOMAIN rooms, state_event \in ProjectedEvents :
          LET out == ProcessStateEvent(state_event, rooms[r])
          IN /\ rooms' = [rooms EXCEPT ![r] = out.room]
             /\ last' = Result("_process_state_event", r, TRUE,
                               IF out.exc THEN "KeyError" ELSE None,
                               state_event, NoCb)
    /\ UNCHANGED <<listeners, end, stream, issued, calls>>
    /\ UNCHANGED thread

NextProject ==
    \/ ProcessStateEventCall
    \/ Return

SpecProject == InitProject /\ [][NextProject]_vars

\* C16: applying _process_state_event to a Room a second time with the
\* same state event gives the Room that the first application gave, and an
\* event of another type or without "type" leaves the Room as it was.
C16_ProjectionIdempotent ==
    last.op = "_process_state_event" =>
      /\ ProcessStateEvent(last.resp, rooms[last.arg]).room = rooms[last.arg]
      /\ ("type" \notin DOMAIN last.resp
            \/ last.resp.type \notin {"m.room.name", "m.room.topic",
                                      "m.room.aliases"}) =>
            /\ rooms = last.pre.rooms
            /\ last.ret = None

C16_Witness ==
    /\ last.op = "_process_state_event"
    /\ "type" \in DOMAIN last.resp
    /\ last.resp.type = "m.room.aliases"
    /\ last.pre.rooms[last.arg].aliases # <<>>
    /\ last.pre.rooms[last.arg].aliases # last.resp.content.aliases
    /\ rooms[last.arg].aliases = last.resp.content.aliases

C16_WitnessIgnored ==
    /\ last.op = "_process_state_event"
    /\ "type" \notin DOMAIN last.resp
    /\ rooms[last.arg].name = "Lobby"

IsPrefix(s, t) ==
    /\ Len(s) <= Len(t)
    /\ \A i \in DOMAIN s : s[i] = t[i]

\* C17: whatever the client does (login and its sync, listen_for_events,
\* create_room, join_room, upload), the event log of a room that stays in
\* the registry only grows at its end: the log before the step is a prefix
\* of the log after it.
C17_EventLogAppendOnly ==
    [][\A r \in DOMAIN rooms \cap DOMAIN rooms' :
          IsPrefix(rooms[r].events, rooms'[r].events)]_vars

\* ------------------------------------------------- the listener thread
\* The events the homeserver has while the thread polls: one for each room.
ThreadChunks == [type : {"m.room.message"}, room_id : RoomIds]

\* What api.event_stream may answer to the thread.
ThreadStreamResponses(pending) ==
    [end : {"tok2"}, chunk : DistinctSeqs(pending, MaxChunks)]
      \cup {[end |-> "tok2"]}

\* MatrixClient.__init__ with a token; the thread is not started.
InitThread ==
    \E response \in JoinedSyncResponses :
      LET out == Sync(<<>>, Unset, response)
      IN /\ rooms = out.rooms
         /\ end = out.end
         /\ listeners = <<>>
         /\ stream = ThreadChunks
         /\ issued = [by |-> "initial_sync", end |-> response.end]
         /\ calls = <<>>
         /\ last = Idle
         /\ thread = NoThread

\* start_listener_thread: the thread starts in listen_forever, or Thread
\* raises, the error is printed and nothing has changed.
StartListenerThread ==
    /\ last.op = "idle"
    /\ thread.pc = "off"
    /\ \/ thread' = [thread EXCEPT !.pc = "loop"]
       \/ UNCHANGED thread
    /\ UNCHANGED <<rooms, listeners, end, stream, issued, calls, last>>

\* The chunk the thread is working on.
ThreadChunk == thread.resp.chunk[thread.k]

\* The thread's position once it is done with the chunk it is working on:
\* the next chunk, or back in the while loop of listen_forever.
NextChunk(t) ==
    IF t.k + 1 > Len(t.resp.chunk) THEN [t EXCEPT !.pc = "loop"]
    ELSE [t EXCEPT !.pc = "listeners", !.k = t.k + 1]

\* listen_forever, "while(True): self.listen_for_events(timeout)", up to the
\* chunk loop: api.event_stream raises or answers, self.end is assigned.
\* An exception ends the thread.
ListenForever ==
    /\ thread.pc = "loop"
    /\ \/ /\ thread' = [thread EXCEPT !.pc = "dead",
                                      !.exc = "MatrixRequestError",
                                      !.resp = NoResp, !.k = 0,
                                      !.calls = <<>>]
          /\ UNCHANGED <<end, stream, issued>>
       \/ \E resp \in ThreadStreamResponses(stream) :
             /\ end' = resp.end
             /\ issued' = Issue("event_stream", resp)
             /\ stream' = IF "chunk" \in DOMAIN resp
                          THEN stream \ Range(resp.chunk) ELSE stream
             /\ thread' =
                  IF "chunk" \notin DOMAIN resp
                  THEN [thread EXCEPT !.pc = "dead", !.exc = "KeyError",
                                      !.resp = resp, !.k = 0, !.calls = <<>>]
                  ELSE [thread EXCEPT
                          !.pc = IF resp.chunk = <<>> THEN "loop"
                                 ELSE "listeners",
                          !.resp = resp, !.k = 1, !.calls = <<>>]
    /\ UNCHANGED <<rooms, listeners, calls, last>>

\* "for listener in self.listeners: listener(chunk)", then
\* 'if "room_id" in chunk'.
ThreadListeners ==
    /\ thread.pc = "listeners"
    /\ LET g == RunListeners(listeners, 1, "global", thread.k, ThreadChunk,
                             NoCb)
           t == [thread EXCEPT !.calls = @ \o g.calls]
       IN thread' = IF "room_id" \in DOMAIN ThreadChunk
                    THEN [t EXCEPT !.pc = "check"]
                    ELSE NextChunk(t)
    /\ UNCHANGED <<rooms, listeners, end, stream, issued, calls, last>>

\* 'if chunk["room_id"] not in self.rooms'
ThreadCheck ==
    /\ thread.pc = "check"
    /\ thread' = [thread EXCEPT
                    !.pc = IF ThreadChunk.room_id \notin DOMAIN rooms
                           THEN "mkroom" ELSE "append"]
    /\ UNCHANGED <<rooms, listeners, end, stream, issued, calls, last>>

\* 'self._mkroom(chunk["room_id"])'
ThreadMkroom ==
    /\ thread.pc = "mkroom"
    /\ rooms' = Mkroom(rooms, ThreadChunk.room_id)
    /\ thread' = [thread EXCEPT !.pc = "append"]
    /\ UNCHANGED <<listeners, end, stream, issued, calls, last>>

\* 'self.rooms[chunk["room_id"]].events.append(chunk)'
ThreadAppend ==
    /\ thread.pc = "append"
    /\ IF ThreadChunk.room_id \notin DOMAIN rooms
       THEN /\ thread' = [thread EXCEPT !.pc = "dead", !.exc = "KeyError"]
            /\ UNCHANGED rooms
       ELSE /\ rooms' = [rooms EXCEPT ![ThreadChunk.room_id].events =
                                         Append(@, ThreadChunk)]
            /\ thread' = [thread EXCEPT
                            !.pc = "dispatch",
                            !.calls = Append(@, [kind |-> "append",
                                                 cb |-> NoCb, k |-> thread.k,
                                                 chunk |-> ThreadChunk])]
    /\ UNCHANGED <<listeners, end, stream, issued, calls, last>>

\* 'for listener in self.rooms[chunk["room_id"]].listeners: listener(chunk)'
ThreadDispatch ==
    /\ thread.pc = "dispatch"
    /\ IF ThreadChunk.room_id \notin DOMAIN rooms
       THEN thread' = [thread EXCEPT !.pc = "dead", !.exc = "KeyError"]
       ELSE LET r == RunListeners(rooms[ThreadChunk.room_id].listeners, 1,
                                  "room", thread.k, ThreadChunk, NoCb)
            IN thread' = NextChunk([thread EXCEPT !.calls = @ \o r.calls])
    /\ UNCHANGED <<rooms, listeners, end, stream, issued, calls, last>>

\* The caller wants the polling to end.  listen_forever takes no signal
\* and start_listener_thread keeps no handle on the thread: the wish is
\* the caller's alone, and no statement of the thread reads it.
RequestStop ==
    /\ last.op = "idle"
    /\ thread.pc \notin {"off", "dead"}
    /\ ~thread.stop
    /\ thread' = [thread EXCEPT !.stop = TRUE]
    /\ UNCHANGED <<rooms, listeners, end, stream, issued, calls, last>>

\* Foreground calls and the steps of the thread, in any order.
NextThread ==
    \/ StartListenerThread
    \/ RequestStop
    \/ ListenForever
    \/ ThreadListeners
    \/ ThreadCheck
    \/ ThreadMkroom
    \/ ThreadAppend
    \/ ThreadDispatch
    \/ AddListener
    \/ RoomAddListener
    \/ JoinRoom
    \/ LeaveCall
    \/ Return

SpecThread == InitThread /\ [][NextThread]_vars

\* C18: the thread's membership check, _mkroom, append and listener
\* dispatch for a chunk act on one Room under every interleaving with
\* foreground calls: when the thread is about to make the room, nobody has
\* registered it since the check; when it is about to call the room's
\* listeners, the chunk it appended is in the log of the Room registered
\* under the chunk's room_id; and the thread never dies of a KeyError for a
\* room that has gone from the registry.
C18_PollSerialized ==
    /\ thread.pc = "mkroom" => ThreadChunk.room_id \notin DOMAIN rooms
    /\ thread.pc = "dispatch" =>
          /\ ThreadChunk.room_id \in DOMAIN rooms
          /\ ThreadChunk \in Range(rooms[ThreadChunk.room_id].events)
    /\ (thread.pc = "dead" /\ thread.exc = "KeyError") =>
          "chunk" \notin DOMAIN thread.resp

\* C19: once the caller has asked for the polling to end and the thread is
\* between two iterations of listen_forever (the listen_for_events call in
\* flight has returned), the thread starts no further poll: it asks the
\* transport for nothing and nothing of the client changes by its hand.
C19_CancelStopsPolling ==
    [][(thread.stop /\ thread.pc = "loop") =>
          /\ thread'.pc \in {"loop", "stopped"}
          /\ UNCHANGED <<end, issued, stream>>]_vars

\* ------------------------------------------- state events on the stream
\* State events as the event stream carries them: for a room of the
\* registry and for a room the client has not seen.
StreamStateChunks ==
    {[type |-> "m.room.name", room_id |-> "!a:x",
      content |-> [name |-> "Hall"]],
     [type |-> "m.room.topic", room_id |-> "!a:x",
      content |-> [topic |-> "News"]],
     [type |-> "m.room.aliases", room_id |-> "!a:x",
      content |-> [aliases |-> <<"#b:x">>]],
     [type |-> "m.room.name", room_id |-> "!b:x",
      content |-> [name |-> "Hall"]]}

\* A client with a cursor whose registry holds one Room, in any cached
\* state; the homeserver has state events to deliver.
InitPoll ==
    /\ \E name \in {None} \cup Names, topic \in {None} \cup Topics,
          aliases \in {<<>>} \cup AliasLists,
          events \in {<<>>, <<[type |-> "m.room.message", body |-> "hi"]>>},
          ls \in {<<>>, <<"f">>} :
          rooms = [r \in {"!a:x"} |->
                     [room_id |-> r, listeners |-> ls, events |-> events,
                      name |-> name, aliases |-> aliases, topic |-> topic]]
    /\ listeners = <<>>
    /\ end = "tok1"
    /\ stream = StreamStateChunks
    /\ issued = [by |-> "initial_sync", end |-> "tok1"]
    /\ calls = <<>>
    /\ last = Idle
    /\ thread = NoThread

NextPoll ==
    \/ ListenForEventsCall
    \/ Return

SpecPoll == InitPoll /\ [][NextPoll]_vars

====
